---- MODULE Spec2Model ----
(***************************************************************************)
(* aefi_scan_engine: the Arcus serial driver (arcus_driver.rs) and the      *)
(* scan executor that drives it (lib.rs).                                   *)
(*                                                                          *)
(* Bytes are numbers 0..255, Rust Strings are sequences of code points,     *)
(* i32 values are integers in MinI32..MaxI32 and every i32 operation is     *)
(* computed with its overflow outcome: a panic in a build with overflow     *)
(* checks ("debug"), two's-complement wrap-around otherwise ("release").    *)
(***************************************************************************)
EXTENDS Integers, Sequences, FiniteSets, TLC

(***************************************************************************)
(* i32 arithmetic.  No intermediate value leaves MinI32..MaxI32.            *)
(***************************************************************************)
MaxI32 == 2147483647
MinI32 == -MaxI32 - 1

AddOverflows(a, b) ==
    \/ b > 0 /\ a > MaxI32 - b
    \/ b < 0 /\ a < MinI32 - b

\* a + b modulo 2^32, as i32::wrapping_add
WrappingAdd(a, b) ==
    IF ~AddOverflows(a, b) THEN a + b
    ELSE IF b > 0 THEN (a - MaxI32 - 1) + (b - MaxI32 - 1)
    ELSE (a + MaxI32 + 1) + (b + MaxI32 + 1)

SubOverflows(a, b) ==
    \/ b < 0 /\ a > MaxI32 + b
    \/ b > 0 /\ a < MinI32 + b

\* a - b modulo 2^32, as i32::wrapping_sub
WrappingSub(a, b) ==
    IF ~SubOverflows(a, b) THEN a - b
    ELSE IF b < 0 THEN (a - MaxI32 - 1) - (b + MaxI32 + 1)
    ELSE (a + MaxI32 + 1) - (b - MaxI32 - 1)

\* i32::abs: the one value without a positive counterpart overflows
AbsOverflows(a) == a = MinI32

WrappingAbs(a) == IF a = MinI32 THEN MinI32 ELSE IF a < 0 THEN -a ELSE a

\* (pos - target).abs() < tol as the build computes it:
\* "panic" when an operation overflows under overflow checks, else the
\* comparison on the wrapped value.
AbsDiffBelow(b, pos, target, tol) ==
    LET d == WrappingSub(pos, target)
        ovf == SubOverflows(pos, target) \/ AbsOverflows(d)
    IN  IF ovf /\ b = "debug" THEN "panic"
        ELSE IF WrappingAbs(d) < tol THEN "yes" ELSE "no"

\* current_x += step
AddAssign(b, x, step) ==
    IF AddOverflows(x, step) /\ b = "debug" THEN [panic |-> TRUE, val |-> x]
    ELSE [panic |-> FALSE, val |-> WrappingAdd(x, step)]

(***************************************************************************)
(* Text: bytes on the wire, Strings in the program.                         *)
(***************************************************************************)
CR == 13
LF == 10

Ascii(c) ==
    CASE c = "P" -> 80  [] c = "M" -> 77  [] c = "S" -> 83  [] c = "T" -> 84
      [] c = "H" -> 72  [] c = "=" -> 61  [] c = "-" -> 45  [] c = "+" -> 43
      [] c = "0" -> 48  [] c = " " -> 32  [] c = "x" -> 120 [] c = "y" -> 121
      [] c = "a" -> 97

RECURSIVE DigitsOfNonPos(_)
\* the decimal digits of -n for n <= 0, most significant first
DigitsOfNonPos(n) ==
    LET d == (10 - (n % 10)) % 10
        q == (n + d) \div 10
    IN  IF q = 0 THEN <<Ascii("0") + d>>
        ELSE Append(DigitsOfNonPos(q), Ascii("0") + d)

\* format!("{}", n) for an i32
FormatI32(n) ==
    IF n < 0 THEN <<Ascii("-")>> \o DigitsOfNonPos(n) ELSE DigitsOfNonPos(-n)

(***************************************************************************)
(* String::from_utf8_lossy on the bytes the model's device can send: ASCII, *)
(* two-byte sequences, and bytes that are never valid on their own or as a  *)
(* lead without its continuation.  (Leads of three- and four-byte           *)
(* sequences, 224..244, are not in the device alphabet.)  Each invalid byte *)
(* becomes U+FFFD.                                                          *)
(***************************************************************************)
Replacement == 65533

IsContinuation(b) == b >= 128 /\ b <= 191
IsLead2(b) == b >= 194 /\ b <= 223

RECURSIVE FromUtf8Lossy(_)
FromUtf8Lossy(bs) ==
    IF bs = <<>> THEN <<>>
    ELSE LET b == Head(bs) IN
         IF b < 128 THEN <<b>> \o FromUtf8Lossy(Tail(bs))
         ELSE IF IsLead2(b) /\ Len(bs) >= 2 /\ IsContinuation(bs[2])
              THEN <<(b - 192) * 64 + (bs[2] - 128)>>
                   \o FromUtf8Lossy(Tail(Tail(bs)))
         ELSE <<Replacement>> \o FromUtf8Lossy(Tail(bs))

\* the bytes of a String (its UTF-8 encoding), for code points the decoder
\* above can produce
RECURSIVE AsBytes(_)
AsBytes(str) ==
    IF str = <<>> THEN <<>>
    ELSE LET c == Head(str) IN
         (IF c < 128 THEN <<c>>
          ELSE IF c < 2048 THEN <<192 + (c \div 64), 128 + (c % 64)>>
          ELSE <<224 + (c \div 4096), 128 + ((c \div 64) % 64), 128 + (c % 64)>>)
         \o AsBytes(Tail(str))

\* char::is_whitespace (White_Space)
IsWhitespace(c) ==
    \/ c \in 9..13
    \/ c \in {32, 133, 160, 5760, 8232, 8233, 8239, 8287, 12288}
    \/ c \in 8192..8202

RECURSIVE TrimStart(_)
TrimStart(str) ==
    IF str # <<>> /\ IsWhitespace(Head(str)) THEN TrimStart(Tail(str)) ELSE str

RECURSIVE TrimEnd(_)
TrimEnd(str) ==
    IF str # <<>> /\ IsWhitespace(str[Len(str)])
    THEN TrimEnd(SubSeq(str, 1, Len(str) - 1)) ELSE str

\* str::trim
Trim(str) == TrimEnd(TrimStart(str))

IsDigit(c) == c >= Ascii("0") /\ c <= Ascii("0") + 9

ParseErr == [ok |-> FALSE, val |-> 0]

RECURSIVE ParseDigits(_, _, _)
\* accumulate the digits of str onto acc, towards +infinity (sign = 1) or
\* -infinity (sign = -1); an overflowing or non-digit character fails
ParseDigits(str, sign, acc) ==
    IF str = <<>> THEN [ok |-> TRUE, val |-> acc]
    ELSE IF ~IsDigit(Head(str)) THEN ParseErr
    ELSE LET d == Head(str) - Ascii("0") IN
         IF sign = 1
         THEN IF acc > (MaxI32 - d) \div 10 THEN ParseErr
              ELSE ParseDigits(Tail(str), sign, acc * 10 + d)
         ELSE IF acc < (MinI32 + d + 9) \div 10 THEN ParseErr
              ELSE ParseDigits(Tail(str), sign, acc * 10 - d)

\* str::parse::<i32>: an optional sign, then at least one digit
ParseI32(str) ==
    IF str = <<>> THEN ParseErr
    ELSE IF Head(str) = Ascii("-")
         THEN IF Tail(str) = <<>> THEN ParseErr ELSE ParseDigits(Tail(str), -1, 0)
    ELSE IF Head(str) = Ascii("+")
         THEN IF Tail(str) = <<>> THEN ParseErr ELSE ParseDigits(Tail(str), 1, 0)
    ELSE ParseDigits(str, 1, 0)

(***************************************************************************)
(* Results.                                                                 *)
(***************************************************************************)
Ok(v) == [kind |-> "Ok", val |-> v]
\* Ok(bool) and Ok(()), kept apart from Ok(i32) by their fields
OkBool(b) == [kind |-> "Ok", flag |-> b]
OkUnit == [kind |-> "Ok"]
Err(e) == [kind |-> "Err", err |-> e]
\* ArcusError::InvalidResponse(resp)
InvalidResponse(resp) == [kind |-> "Err", err |-> "InvalidResponse", text |-> resp]
None == [kind |-> "None"]

(***************************************************************************)
(* ArcusController: the wire protocol.                                      *)
(***************************************************************************)
\* Write::write_all(buf): the port takes the whole buffer, or fails.  (A
\* failing write_all is taken to have put none of its buffer on the wire.)
WriteAll(wire, buf, good) ==
    [ok |-> good, tx |-> IF good THEN wire \o buf ELSE wire]

\* send_command(cmd) on a port that completes w more write_all calls
SendCommand(wire, cmd, w) ==
    LET text == WriteAll(wire, cmd, w >= 1) IN
    IF ~text.ok THEN text
    ELSE WriteAll(text.tx, <<CR>>, w >= 2)

\* the write_all calls the port may complete during one send_command
WritePoints == 0..2

CmdPosition(axis) == <<Ascii("P")>> \o AsBytes(<<axis>>)
CmdMove(axis, position) == AsBytes(<<axis>>) \o FormatI32(position)
CmdStatus == <<Ascii("M"), Ascii("S"), Ascii("T")>>
CmdHighSpeed(axis, speed) ==
    <<Ascii("H"), Ascii("S")>> \o AsBytes(<<axis>>) \o <<Ascii("=")>>
        \o FormatI32(speed)

IsTerminator(byte) == byte = LF \/ byte = CR

\* mutant: a terminator breaks the loop even while the buffer is empty
ReadStepNoSkip(buf, byte) ==
    IF byte = LF \/ byte = CR
    THEN [done |-> TRUE, buf |-> buf]
    ELSE [done |-> FALSE, buf |-> Append(buf, byte)]

\* one received byte in read_response's loop: the buffer after it and whether
\* the loop breaks
ReadStep(buf, byte) ==
    IF IsTerminator(byte)
    THEN [done |-> buf # <<>>, buf |-> buf]
    ELSE [done |-> FALSE, buf |-> Append(buf, byte)]

\* read_response's return value once the loop has broken
ResponseString(buf) == Ok(FromUtf8Lossy(buf))

\* get_position's result from the response line
DecodePosition(resp) ==
    LET p == ParseI32(Trim(resp)) IN
    IF p.ok THEN Ok(p.val) ELSE InvalidResponse(resp)

\* mutant: an unparsable status is reported as an error
DecodeMovingStrict(resp) ==
    LET p == ParseI32(Trim(resp)) IN
    IF p.ok THEN OkBool(p.val % 2 # 0) ELSE InvalidResponse(resp)

\* is_moving's result from the response line
DecodeMoving(resp) ==
    LET p == ParseI32(Trim(resp))
        status == IF p.ok THEN p.val ELSE 0
    IN  OkBool(status % 2 # 0)

RECURSIVE ReadResponse(_, _, _)
\* read_response over a whole incoming stream, the port's read failing with
\* `tail` ("TimedOut" or "Io") once the stream is used up
ReadResponse(stream, buf, tail) ==
    IF stream = <<>>
    THEN IF tail = "TimedOut" THEN Err("Timeout") ELSE Err("Io")
    ELSE LET s == ReadStep(buf, Head(stream)) IN
         IF s.done THEN ResponseString(s.buf)
         ELSE ReadResponse(Tail(stream), s.buf, tail)

\* mutant: the query sent is the status query
GetPositionSendingStatus(wire, axis, w, stream, tail) ==
    LET sent == SendCommand(wire, CmdStatus, w) IN
    IF ~sent.ok THEN [tx |-> sent.tx, res |-> Err("Io")]
    ELSE LET resp == ReadResponse(stream, <<>>, tail) IN
         [tx |-> sent.tx,
          res |-> IF resp.kind = "Ok" THEN DecodePosition(resp.val) ELSE resp]

\* get_position(axis) as one call: the wire afterwards and the result
GetPosition(wire, axis, w, stream, tail) ==
    LET sent == SendCommand(wire, CmdPosition(axis), w) IN
    IF ~sent.ok THEN [tx |-> sent.tx, res |-> Err("Io")]
    ELSE LET resp == ReadResponse(stream, <<>>, tail) IN
         [tx |-> sent.tx,
          res |-> IF resp.kind = "Ok" THEN DecodePosition(resp.val) ELSE resp]

\* move_to(axis, position) as one call
MoveTo(wire, axis, position, w) ==
    LET sent == SendCommand(wire, CmdMove(axis, position), w) IN
    [tx |-> sent.tx, res |-> IF sent.ok THEN OkUnit ELSE Err("Io")]

(***************************************************************************)
(* State.                                                                   *)
(***************************************************************************)
VARIABLES
    build,       \* "debug" (overflow checks on) or "release" (wrapping)
    controller,  \* RustScanExecutor.controller: "None" or "Some"
    handles,     \* open handles on the serial port
    tx,          \* every byte written to the port so far
    pc,          \* where the executor's current host call stands
    scan,        \* start_scan's arguments x_min, x_max, step
    current_x,   \* start_scan's sweep counter
    results,     \* start_scan's result vector
    waited,      \* how start_scan's arrival wait ended: "arrived" (a position
                 \* within the start tolerance), "gave_up" (get_position
                 \* failed), "pending" before that
    returns,     \* what each host call so far returned, oldest first
    dpc,         \* where the driver's current operation stands
    dop,         \* the driver operation in progress or last finished
    exch,        \* the number of commands handed to send_command so far
    rx,          \* bytes the device has sent and the port has not yet read,
                 \* each with the exchange during which it was sent
    buffer,      \* read_response's accumulation buffer
    stream,      \* the byte stream a simulated device had queued at the start
    origin,      \* the exchanges that sent the bytes now in the buffer
    resp,        \* the result of the latest read_response
    dret         \* the result of the latest driver operation

execVars == <<build, controller, handles, pc, scan, current_x, results,
              waited, returns>>
driverVars == <<dpc, dop, exch, rx, buffer, stream, origin, resp, dret>>
vars == <<build, controller, handles, tx, pc, scan, current_x, results,
          waited, returns, dpc, dop, exch, rx, buffer, stream, origin, resp, dret>>

Bytes(tagged) == [i \in 1..Len(tagged) |-> tagged[i].b]

(***************************************************************************)
(* Bounds and the inputs drawn within them.                                 *)
(***************************************************************************)
MaxOps == 2     \* driver operations in a run of the driver
MaxRx == 2      \* bytes the port holds unread
MaxLine == 1    \* content bytes of one response line a live device sends
MaxStream == 3  \* bytes of a simulated device's stream

Axes == {Ascii("x")}
DriverValues == {-4}
\* what a live device sends, byte by byte
DeviceBytes == {CR, LF, Ascii("0") + 5}
\* what a simulated stream is made of
StreamBytes ==
    {CR, LF, Ascii("0") + 5, Ascii("0") + 4, Ascii("-"), Ascii(" "), 255}

RECURSIVE SeqsUpTo(_, _)
SeqsUpTo(S, n) ==
    IF n = 0 THEN {<<>>}
    ELSE LET shorter == SeqsUpTo(S, n - 1) IN
         shorter \cup {Append(q, e) : q \in shorter, e \in S}

\* "1234\n" and "\r\r5\r"
ExampleStreams ==
    {<<Ascii("0") + 1, Ascii("0") + 2, Ascii("0") + 3, Ascii("0") + 4, LF>>,
     <<CR, CR, Ascii("0") + 5, CR>>}

Streams == SeqsUpTo(StreamBytes, MaxStream) \cup ExampleStreams

(***************************************************************************)
(* The driver, byte by byte.                                                *)
(***************************************************************************)
InitDriver ==
    /\ build = "release"
    /\ controller = "Some"
    /\ handles = 1
    /\ tx = <<>>
    /\ pc = "idle"
    /\ scan = [x_min |-> 0, x_max |-> 0, step |-> 0]
    /\ current_x = 0
    /\ results = <<>>
    /\ waited = "pending"
    /\ returns = <<>>
    /\ dpc = "idle"
    /\ dop = "none"
    /\ exch = 0
    /\ rx = <<>>
    /\ buffer = <<>>
    /\ stream = <<>>
    /\ origin = {}
    /\ resp = None
    /\ dret = None

\* an operation that sends cmd and reads one response line: up to the first
\* port.read
Exchange(op, cmd) ==
    /\ dpc = "idle"
    /\ exch < MaxOps
    /\ \E w \in WritePoints :
         LET sent == SendCommand(tx, cmd, w) IN
         /\ tx' = sent.tx
         /\ exch' = exch + 1
         /\ dop' = op
         /\ IF sent.ok
            THEN /\ dpc' = "reading"
                 /\ buffer' = <<>>
                 /\ origin' = {}
                 /\ UNCHANGED <<resp, dret>>
            ELSE /\ dret' = Err("Io")
                 /\ UNCHANGED <<dpc, buffer, origin, resp>>
    /\ UNCHANGED <<rx, stream, execVars>>

\* mutant: the operation discards the port's unread input
SendOnlyDraining(op, cmd) ==
    /\ dpc = "idle"
    /\ exch < MaxOps
    /\ \E w \in WritePoints :
         LET sent == SendCommand(tx, cmd, w) IN
         /\ tx' = sent.tx
         /\ exch' = exch + 1
         /\ dop' = op
         /\ dret' = IF sent.ok THEN OkUnit ELSE Err("Io")
    /\ rx' = <<>>
    /\ UNCHANGED <<dpc, buffer, stream, origin, resp, execVars>>

\* an operation that only sends cmd
SendOnly(op, cmd) ==
    /\ dpc = "idle"
    /\ exch < MaxOps
    /\ \E w \in WritePoints :
         LET sent == SendCommand(tx, cmd, w) IN
         /\ tx' = sent.tx
         /\ exch' = exch + 1
         /\ dop' = op
         /\ dret' = IF sent.ok THEN OkUnit ELSE Err("Io")
    /\ UNCHANGED <<dpc, rx, buffer, stream, origin, resp, execVars>>

get_position == \E axis \in Axes : Exchange("get_position", CmdPosition(axis))

is_moving == Exchange("is_moving", CmdStatus)

move_to ==
    \E axis \in Axes, position \in DriverValues :
        SendOnly("move_to", CmdMove(axis, position))

set_high_speed ==
    \E axis \in Axes, speed \in DriverValues :
        SendOnly("set_high_speed", CmdHighSpeed(axis, speed))

\* what the operation in progress makes of read_response's result
Decode(op, r) ==
    IF r.kind # "Ok" THEN r
    ELSE IF op = "get_position" THEN DecodePosition(r.val)
    ELSE DecodeMoving(r.val)

\* read_response returns r to the operation in progress
Finish(r) ==
    /\ resp' = r
    /\ dret' = Decode(dop, r)
    /\ dpc' = "idle"

\* port.read gives Ok(1): the oldest unread byte
ReadByte ==
    /\ dpc = "reading"
    /\ rx # <<>>
    /\ LET s == ReadStep(buffer, Head(rx).b) IN
       /\ buffer' = s.buf
       /\ IF s.done THEN Finish(ResponseString(s.buf))
          ELSE UNCHANGED <<resp, dret, dpc>>
       /\ origin' = IF s.buf # buffer THEN origin \cup {Head(rx).ex} ELSE origin
    /\ rx' = Tail(rx)
    /\ UNCHANGED <<tx, dop, exch, stream, execVars>>

\* port.read gives Ok(0): the loop goes round again
ReadNothing ==
    /\ dpc = "reading"
    /\ UNCHANGED vars

\* port.read fails with TimedOut: no byte came within the port's timeout
ReadTimedOut ==
    /\ dpc = "reading"
    /\ rx = <<>>
    /\ Finish(Err("Timeout"))
    /\ UNCHANGED <<tx, dop, exch, rx, buffer, stream, origin, execVars>>

\* port.read fails with another error
ReadFailed ==
    /\ dpc = "reading"
    /\ Finish(Err("Io"))
    /\ UNCHANGED <<tx, dop, exch, rx, buffer, stream, origin, execVars>>

\* the content bytes of the line being read or still unread
Pending == Len(buffer) + Cardinality({i \in 1..Len(rx) : ~IsTerminator(rx[i].b)})

\* the device sends one byte; it speaks only once a command has reached it
DeviceSend ==
    /\ tx # <<>>
    /\ Len(rx) < MaxRx
    /\ \E b \in DeviceBytes :
         /\ IsTerminator(b) \/ Pending < MaxLine
         /\ rx' = Append(rx, [b |-> b, ex |-> exch])
    /\ UNCHANGED <<tx, dpc, dop, exch, buffer, stream, origin, resp, dret,
                   execVars>>

\* one round of read_response's loop
ReadLoop == ReadByte \/ ReadNothing \/ ReadTimedOut \/ ReadFailed

NextDriver ==
    \/ get_position
    \/ is_moving
    \/ move_to
    \/ set_high_speed
    \/ ReadByte
    \/ ReadNothing
    \/ ReadTimedOut
    \/ ReadFailed
    \/ DeviceSend

\* The calling thread is never suspended: while read_response is in its
\* loop, port.read returns (within the port's timeout) and the loop body
\* runs.  The device and the host are under no obligation.
SpecDriver == InitDriver /\ [][NextDriver]_vars /\ WF_vars(ReadLoop)

(***************************************************************************)
(* The driver against a simulated device: the whole stream is queued before *)
(* the first operation and nothing is sent afterwards.                      *)
(***************************************************************************)
InitStream ==
    /\ build = "release"
    /\ controller = "Some"
    /\ handles = 1
    /\ tx = <<>>
    /\ pc = "idle"
    /\ scan = [x_min |-> 0, x_max |-> 0, step |-> 0]
    /\ current_x = 0
    /\ results = <<>>
    /\ waited = "pending"
    /\ returns = <<>>
    /\ dpc = "idle"
    /\ dop = "none"
    /\ exch = 0
    /\ stream \in Streams
    /\ rx = [i \in 1..Len(stream) |-> [b |-> stream[i], ex |-> 0]]
    /\ buffer = <<>>
    /\ origin = {}
    /\ resp = None
    /\ dret = None

NextStream ==
    \/ get_position
    \/ is_moving
    \/ ReadByte
    \/ ReadNothing
    \/ ReadTimedOut
    \/ ReadFailed

SpecStream == InitStream /\ [][NextStream]_vars

(***************************************************************************)
(* RustScanExecutor: the host-facing operations.  Each ctrl.move_to and     *)
(* ctrl.get_position is one step: the port accepts some number of bytes and *)
(* the device answers with some stream.                                     *)
(***************************************************************************)
MaxCalls == 2   \* host calls in a run of the executor
MaxCmds == 8    \* commands the executor sends in a run

StartTolerance == 10
StepTolerance == 5

ScanArgs(x_min, x_max, step) == [x_min |-> x_min, x_max |-> x_max, step |-> step]

\* the scans the host asks for: the documented example, an empty range, a
\* zero step, and steps of the largest magnitude either way
ScanInputs ==
    {ScanArgs(0, 10, 5),
     ScanArgs(2, 0, 5),
     ScanArgs(2, 0, 0),
     ScanArgs(0, 0, 0),
     ScanArgs(0, 0, MinI32 + 1),
     ScanArgs(2, MaxI32 - 1, MaxI32)}
MovePositions == {5}

\* the positions the stage may report while commanded to target
StagePositions(target) ==
    {WrappingAdd(target, d) : d \in {-5, 0, 4, 10}} \cup {MinI32}

\* the write_all calls the port completes for a command of the executor:
\* none (the port has failed) or both
PortAccepts == {0, 2}

\* what may come back after a position query while the stage is commanded to
\* target: a position line, an unparsable line, silence, or a port failure
Replies(target) ==
    {[s |-> FormatI32(p) \o <<CR>>, tail |-> "TimedOut"] :
        p \in StagePositions(target)}
    \cup {[s |-> <<Ascii("-"), CR>>, tail |-> "TimedOut"],
          [s |-> <<>>, tail |-> "TimedOut"],
          [s |-> <<>>, tail |-> "Io"]}

Init ==
    /\ build \in {"debug", "release"}
    /\ controller = "None"
    /\ handles = 0
    /\ tx = <<>>
    /\ pc = "idle"
    /\ scan = [x_min |-> 0, x_max |-> 0, step |-> 0]
    /\ current_x = 0
    /\ results = <<>>
    /\ waited = "pending"
    /\ returns = <<>>
    /\ dpc = "idle"
    /\ dop = "none"
    /\ exch = 0
    /\ rx = <<>>
    /\ buffer = <<>>
    /\ stream = <<>>
    /\ origin = {}
    /\ resp = None
    /\ dret = None

\* mutant: the connection test is skipped
ConnectedAlways(c) == TRUE

\* if let Some(ctrl) = &mut self.controller
Connected(c) == c = "Some"

\* what the host gets back from a call
HostOk(op, args, val) ==
    [op |-> op, args |-> args, kind |-> "Ok", val |-> val]
\* PyIOError carrying the driver error's text
IoError(op, args, e) ==
    [op |-> op, args |-> args, kind |-> "IOError", msg |-> e, val |-> <<>>]
\* PyRuntimeError("Not connected")
NotConnected(op, args) ==
    [op |-> op, args |-> args, kind |-> "RuntimeError",
     msg |-> "Not connected", val |-> <<>>]
\* an arithmetic overflow panic, raised to the host
Panicked(op, args) ==
    [op |-> op, args |-> args, kind |-> "Panic", val |-> <<>>]

\* mutant: the error carries the pairs recorded so far
ScanFailureWithResults(args, e, rs) ==
    [op |-> "start_scan", args |-> args, kind |-> "IOError", msg |-> e,
     val |-> rs]

\* start_scan leaves through `?` with driver error e: the result vector rs is
\* dropped with the frame
ScanFailure(args, e, rs) == IoError("start_scan", args, e)

\* mutant: the sweep stops one position short
SweepContinuesBelow(x, x_max) == x < x_max

\* while current_x <= x_max
SweepContinues(x, x_max) == x <= x_max

Return(r) ==
    /\ returns' = Append(returns, r)
    /\ pc' = "idle"

CanCall == pc = "idle" /\ Len(returns) < MaxCalls

driverIdle == <<dpc, rx, buffer, stream, origin, resp>>

\* the driver operation just made on behalf of the executor
Called(op, out) ==
    /\ tx' = out.tx
    /\ exch' = exch + 1
    /\ dop' = op
    /\ dret' = out.res

\* mutant: a failed open discards the controller installed earlier
connectClearing ==
    /\ CanCall
    /\ \E opened \in BOOLEAN :
         IF opened
         THEN /\ handles' = handles + 1
              /\ pc' = "connected"
              /\ UNCHANGED <<returns, controller>>
         ELSE /\ Return(IoError("connect", <<>>, Err("Serial")))
              /\ controller' = "None"
              /\ handles' = 0
    /\ UNCHANGED <<build, tx, scan, current_x, results, waited,
                   exch, dop, dret, driverIdle>>

\* connect(), up to ArcusController::connect's port open
connect ==
    /\ CanCall
    /\ \E opened \in BOOLEAN :
         IF opened
         THEN /\ handles' = handles + 1
              /\ pc' = "connected"
              /\ UNCHANGED returns
         ELSE /\ Return(IoError("connect", <<>>, Err("Serial")))
              /\ UNCHANGED handles
    /\ UNCHANGED <<build, controller, tx, scan, current_x, results, waited,
                   exch, dop, dret, driverIdle>>

\* connect(), from self.controller = Some(ctrl): the previous controller, if
\* any, is dropped by the assignment
connect_store ==
    /\ pc = "connected"
    /\ controller' = "Some"
    /\ handles' = IF Connected(controller) THEN handles - 1 ELSE handles
    /\ Return(HostOk("connect", <<>>, <<"Connected">>))
    /\ UNCHANGED <<build, tx, scan, current_x, results, waited, exch, dop,
                   dret, driverIdle>>

move_axis ==
    /\ CanCall
    /\ \E axis \in Axes, position \in MovePositions :
         LET args == <<axis, position>> IN
         IF Connected(controller)
         THEN /\ exch < MaxCmds
              /\ \E w \in PortAccepts :
                   LET out == MoveTo(tx, axis, position, w) IN
                   /\ Called("move_to", out)
                   /\ Return(IF out.res.kind = "Ok"
                             THEN HostOk("move_axis", args, <<"Moved">>)
                             ELSE IoError("move_axis", args, out.res))
         ELSE /\ Return(NotConnected("move_axis", args))
              /\ UNCHANGED <<tx, exch, dop, dret>>
    /\ UNCHANGED <<build, controller, handles, scan, current_x, results, waited,
                   driverIdle>>

\* start_scan, up to the first get_position
start_scan ==
    /\ CanCall
    /\ \E args \in ScanInputs :
         LET x_min == args.x_min IN
         IF Connected(controller)
         THEN /\ exch < MaxCmds
              /\ scan' = args
              /\ results' = <<>>
              /\ current_x' = x_min
              /\ waited' = "pending"
              /\ \E w \in PortAccepts :
                   LET out == MoveTo(tx, Ascii("x"), x_min, w) IN
                   /\ Called("move_to", out)
                   /\ IF out.res.kind = "Ok"
                      THEN pc' = "wait" /\ UNCHANGED returns
                      ELSE Return(ScanFailure(args, out.res, <<>>))
         ELSE /\ Return(NotConnected("start_scan", args))
              /\ UNCHANGED <<tx, exch, dop, dret, scan, results, current_x,
                             waited>>
    /\ UNCHANGED <<build, controller, handles, driverIdle>>

\* what one get_position does to the arrival wait: "arrived" and "gave_up"
\* end it, "pending" goes round again
AfterWait(b, res, x_min) ==
    IF res.kind = "Ok"
    THEN LET near == AbsDiffBelow(b, res.val, x_min, StartTolerance) IN
         IF near = "panic" THEN "panic"
         ELSE IF near = "yes" THEN "arrived" ELSE "pending"
    ELSE "gave_up"

\* one round of: while let Ok(pos) = ctrl.get_position('x') { ... }
wait_arrival ==
    /\ pc = "wait"
    /\ exch < MaxCmds
    /\ \E w \in PortAccepts, r \in Replies(scan.x_min) :
         LET out == GetPosition(tx, Ascii("x"), w, r.s, r.tail)
             next == AfterWait(build, out.res, scan.x_min)
         IN  /\ Called("get_position", out)
             /\ IF next = "panic"
                THEN Return(Panicked("start_scan", scan)) /\ UNCHANGED waited
                ELSE /\ waited' = next
                     /\ pc' = IF next = "pending" THEN "wait" ELSE "sweep"
                     /\ UNCHANGED returns
    /\ UNCHANGED <<build, controller, handles, scan, current_x, results,
                   driverIdle>>

\* the head of the scan loop: the test, then the move to the next position;
\* Ok(results) once the test fails
sweep ==
    /\ pc = "sweep"
    /\ IF SweepContinues(current_x, scan.x_max)
       THEN /\ exch < MaxCmds
            /\ \E w \in PortAccepts :
                 LET out == MoveTo(tx, Ascii("x"), current_x, w) IN
                 /\ Called("move_to", out)
                 /\ IF out.res.kind = "Ok"
                    THEN pc' = "poll" /\ UNCHANGED returns
                    ELSE Return(ScanFailure(scan, out.res, results))
       ELSE /\ Return(HostOk("start_scan", scan, results))
            /\ UNCHANGED <<tx, exch, dop, dret>>
    /\ UNCHANGED <<build, controller, handles, scan, current_x, results, waited,
                   driverIdle>>

\* one round of the inner loop, and current_x += step once it breaks
poll ==
    /\ pc = "poll"
    /\ exch < MaxCmds
    /\ \E w \in PortAccepts, r \in Replies(current_x) :
         LET out == GetPosition(tx, Ascii("x"), w, r.s, r.tail)
             near == IF out.res.kind = "Ok"
                     THEN AbsDiffBelow(build, out.res.val, current_x,
                                       StepTolerance)
                     ELSE "error"
             sum == AddAssign(build, current_x, scan.step)
         IN  /\ Called("get_position", out)
             /\ CASE near = "error" ->
                       /\ Return(ScanFailure(scan, out.res, results))
                       /\ UNCHANGED <<results, current_x>>
                  [] near = "panic" ->
                       /\ Return(Panicked("start_scan", scan))
                       /\ UNCHANGED <<results, current_x>>
                  [] near = "no" ->
                       UNCHANGED <<pc, returns, results, current_x>>
                  [] near = "yes" ->
                       /\ results' = Append(results, <<current_x, out.res.val>>)
                       /\ IF sum.panic
                          THEN /\ Return(Panicked("start_scan", scan))
                               /\ UNCHANGED current_x
                          ELSE /\ current_x' = sum.val
                               /\ pc' = "sweep"
                               /\ UNCHANGED returns
    /\ UNCHANGED <<build, controller, handles, scan, waited, driverIdle>>

Next ==
    \/ connect
    \/ connect_store
    \/ move_axis
    \/ start_scan
    \/ wait_arrival
    \/ sweep
    \/ poll

Spec == Init /\ [][Next]_vars

(***************************************************************************)
(* Properties of the executor (Spec).                                       *)
(***************************************************************************)
LastReturn == returns[Len(returns)]

\* |a - b| < tol over the integers
Near(a, b, tol) ==
    IF a >= b THEN b > MaxI32 - tol \/ a < b + tol
    ELSE a > MaxI32 - tol \/ b < a + tol

RECURSIVE SweepFrom(_, _, _)
\* t, t + step, ... while <= x_max, over the integers (step > 0)
SweepFrom(t, x_max, step) ==
    IF t > x_max THEN <<>>
    ELSE IF t > MaxI32 - step THEN <<t>>
    ELSE <<t>> \o SweepFrom(t + step, x_max, step)

Targets(pairs) == [j \in 1..Len(pairs) |-> pairs[j][1]]

\* C1: a start_scan(x_min, x_max, step) with step > 0 and x_min <= x_max that
\* completes returns one pair per target x_min + k*step <= x_max, in sweep
\* order, none repeated or skipped; with a stage that reports the requested
\* target, start_scan(0, 10, 5) returns [(0,0), (5,5), (10,10)].
C1_OnePairPerTarget ==
    (pc = "idle" /\ returns # <<>> /\ LastReturn.op = "start_scan"
        /\ LastReturn.kind = "Ok" /\ waited = "arrived"
        /\ LastReturn.args.step > 0
        /\ LastReturn.args.x_min <= LastReturn.args.x_max)
    => /\ Targets(LastReturn.val)
            = SweepFrom(LastReturn.args.x_min, LastReturn.args.x_max,
                        LastReturn.args.step)
       /\ (LastReturn.args = ScanArgs(0, 10, 5)
              /\ \A j \in 1..Len(LastReturn.val) :
                     LastReturn.val[j][2] = LastReturn.val[j][1])
           => LastReturn.val = <<<<0, 0>>, <<5, 5>>, <<10, 10>>>>

\* C2: during the arrival wait a failed get_position does not end the wait,
\* and the sweep loop is entered only after a get_position has returned a
\* position within the start tolerance of x_min.
C2_WaitEndsOnlyOnArrival ==
    [][pc = "wait" =>
         /\ dret'.kind = "Err" => pc' = "wait"
         /\ pc' = "sweep" =>
              dret'.kind = "Ok" /\ Near(dret'.val, scan.x_min, StartTolerance)
      ]_vars

\* C3: a get_position that fails during the per-step poll makes start_scan
\* return that error, and none of the pairs recorded so far.
C3_PollErrorDiscardsResults ==
    [][(pc = "poll" /\ dret'.kind = "Err") =>
         /\ pc' = "idle"
         /\ Len(returns') = Len(returns) + 1
         /\ returns'[Len(returns')].op = "start_scan"
         /\ returns'[Len(returns')].kind = "IOError"
         /\ returns'[Len(returns')].msg = dret'
         /\ returns'[Len(returns')].val = <<>>
      ]_vars

\* the poll of the third target timed out after two pairs had been recorded
C3_Witness ==
    /\ pc = "idle"
    /\ returns # <<>>
    /\ LastReturn.op = "start_scan"
    /\ LastReturn.kind = "IOError"
    /\ LastReturn.msg = Err("Timeout")
    /\ LastReturn.val = <<>>
    /\ Len(results) = 2

\* C4: while no connect() has succeeded, move_axis and start_scan fail with
\* "Not connected" and nothing is written to the port, failed connect() calls
\* notwithstanding.
C4_NotConnected ==
    controller = "None" =>
        /\ tx = <<>>
        /\ \A i \in 1..Len(returns) :
               returns[i].op \in {"move_axis", "start_scan"} =>
                   /\ returns[i].kind = "RuntimeError"
                   /\ returns[i].msg = "Not connected"

\* a connect() failed, then start_scan was refused
C4_Witness ==
    /\ controller = "None"
    /\ tx = <<>>
    /\ Len(returns) = 2
    /\ returns[1].op = "connect" /\ returns[1].kind = "IOError"
    /\ returns[2].op = "start_scan" /\ returns[2].kind = "RuntimeError"

\* C5 as stated: with step <= 0 and a stage that answers every position
\* query, start_scan does not terminate.
C5_NonPositiveStepNeverReturns ==
    (pc = "idle" /\ returns # <<>> /\ LastReturn.op = "start_scan"
        /\ LastReturn.kind \in {"Ok", "Panic"} /\ waited = "arrived")
    => LastReturn.args.step > 0

\* C5 as amended: with step <= 0, start_scan returns a result only when
\* x_min > x_max (the result is empty) or, for step < 0 in a build that wraps,
\* when current_x + step has passed the least i32; so never for step = 0 and
\* x_min <= x_max.
C5_NonPositiveStepReturns ==
    \A i \in 1..Len(returns) :
        LET r == returns[i] IN
        (r.op = "start_scan" /\ r.kind = "Ok" /\ r.args.step <= 0) =>
            \/ r.args.x_min > r.args.x_max /\ r.val = <<>>
            \/ /\ r.args.x_min <= r.args.x_max
               /\ r.args.step < 0
               /\ build = "release"
               /\ r.val # <<>>
               /\ r.val[Len(r.val)][1] < MinI32 - r.args.step

\* start_scan(0, 0, -2147483647) has come back with two pairs: the counter
\* went 0, -2147483647, and wrapped to 2
C5_Witness ==
    /\ pc = "idle"
    /\ returns # <<>>
    /\ LastReturn.op = "start_scan"
    /\ LastReturn.kind = "Ok"
    /\ LastReturn.args = ScanArgs(0, 0, MinI32 + 1)
    /\ Len(LastReturn.val) = 2
    /\ waited = "arrived"

\* C10: every recorded pair is within the step tolerance: |target - measured|
\* < 5, so a reading further off never ends the poll for its target.
C10_PairsWithinTolerance ==
    \A j \in 1..Len(results) : Near(results[j][2], results[j][1], StepTolerance)

(***************************************************************************)
(* Properties of the driver (SpecDriver, SpecStream).                       *)
(***************************************************************************)
\* C6: the value a get_position or is_moving call returns is decoded only
\* from bytes the device sent during that call's own exchange.
C6_OwnResponse ==
    (dpc = "idle" /\ dop \in {"get_position", "is_moving"} /\ dret.kind = "Ok")
    => origin \subseteq {exch}

\* C7: once get_position (or is_moving) has sent its command, it eventually
\* returns, whatever the device sends or leaves unsent.
C7_ReadReturns == (dpc = "reading") ~> (dpc = "idle")

\* the command texts the driver is asked to send
DriverCommands ==
    {CmdPosition(a) : a \in Axes} \cup {CmdStatus}
        \cup {CmdMove(a, v) : a \in Axes, v \in DriverValues}
        \cup {CmdHighSpeed(a, v) : a \in Axes, v \in DriverValues}

FirstCR(wire) == CHOOSE i \in 1..Len(wire) :
                    wire[i] = 13 /\ \A j \in 1..(i - 1) : wire[j] # 13

RECURSIVE WholeCommands(_)
\* wire is a concatenation of command texts, each followed by one CR
WholeCommands(wire) ==
    \/ wire = <<>>
    \/ /\ \E i \in 1..Len(wire) : wire[i] = 13
       /\ SubSeq(wire, 1, FirstCR(wire) - 1) \in DriverCommands
       /\ WholeCommands(SubSeq(wire, FirstCR(wire) + 1, Len(wire)))

\* C9: whatever operations have run and however they returned, the bytes
\* written to the port are complete commands, each ended by exactly one CR.
C9_WireIsWholeCommands == WholeCommands(tx)

\* the number of terminator bytes str begins with
LeadingTerminators(str) ==
    CHOOSE n \in 0..Len(str) :
        /\ \A i \in 1..n : str[i] \in {10, 13}
        /\ n < Len(str) => str[n + 1] \notin {10, 13}

\* the index of the first terminator after the content, 0 if there is none
ClosingTerminator(str) ==
    LET n == LeadingTerminators(str)
        closing == {j \in (n + 2)..Len(str) : str[j] \in {10, 13}}
    IN  IF closing = {} THEN 0
        ELSE CHOOSE j \in closing : \A k \in closing : j <= k

\* the bytes between the leading terminators and the closing one
Content(str) ==
    SubSeq(str, LeadingTerminators(str) + 1, ClosingTerminator(str) - 1)

\* the first read_response over a simulated stream has returned a String
FirstLineRead == exch = 1 /\ dpc = "idle" /\ resp.kind = "Ok"

\* C8 as stated: read_response returns exactly the bytes between the leading
\* terminators and the first terminator after content.
C8_ReturnsContentBytes ==
    FirstLineRead => AsBytes(resp.val) = Content(stream)

\* C8 as amended: read_response consumes the stream up to the first
\* terminator after content and returns the lossy UTF-8 decoding of the
\* content: the content itself when it is ASCII; "1234\n" makes get_position
\* return 1234 and "\r\r5\r" makes it return 5.
C8_ReturnsDecodedContent ==
    FirstLineRead =>
        /\ ClosingTerminator(stream) > 0
        /\ resp.val = FromUtf8Lossy(Content(stream))
        /\ (\A i \in 1..Len(Content(stream)) : Content(stream)[i] < 128)
              => AsBytes(resp.val) = Content(stream)
        /\ Bytes(rx) = SubSeq(stream, ClosingTerminator(stream) + 1, Len(stream))
        /\ (dop = "get_position" /\ stream = <<49, 50, 51, 52, 10>>)
              => dret = Ok(1234)
        /\ (dop = "get_position" /\ stream = <<13, 13, 53, 13>>)
              => dret = Ok(5)

\* get_position over "\r\r5\r" has returned 5
C8_Witness ==
    /\ FirstLineRead
    /\ dop = "get_position"
    /\ stream = <<13, 13, 53, 13>>
    /\ dret = Ok(5)
    /\ rx = <<>>

(***************************************************************************)
(* Further properties of the executor (Spec).                               *)
(***************************************************************************)
\* the step is a move_to made by start_scan (not by move_axis)
ScanMoves ==
    /\ exch' = exch + 1
    /\ dop' = "move_to"
    /\ ~(Len(returns') = Len(returns) + 1
         /\ returns'[Len(returns')].op = "move_axis")

\* C11: when a move_to issued by start_scan fails (the move to x_min or a
\* per-step move), the call returns that error at once: the call is over, so
\* it sends nothing more, and the error carries no result pairs.
C11_MoveErrorAbortsScan ==
    [][(ScanMoves /\ dret'.kind = "Err") =>
         /\ pc' = "idle"
         /\ Len(returns') = Len(returns) + 1
         /\ returns'[Len(returns')].op = "start_scan"
         /\ returns'[Len(returns')].kind = "IOError"
         /\ returns'[Len(returns')].msg = dret'
         /\ returns'[Len(returns')].val = <<>>]_vars

\* a per-step move has failed after a pair had been recorded
C11_Witness ==
    /\ pc = "idle"
    /\ returns # <<>>
    /\ LastReturn.op = "start_scan"
    /\ LastReturn.kind = "IOError"
    /\ dop = "move_to"
    /\ dret.kind = "Err"
    /\ results # <<>>

(***************************************************************************)
(* Further properties of the driver (SpecStream, SpecDriver).               *)
(***************************************************************************)
\* text is an optional sign and one or more decimal digits, the last one odd
OddIntegerText(text) ==
    LET signed == text # <<>> /\ text[1] \in {43, 45}
        digits == IF signed THEN Tail(text) ELSE text
    IN  /\ digits # <<>>
        /\ \A i \in 1..Len(digits) : digits[i] \in 48..57
        /\ digits[Len(digits)] \in {49, 51, 53, 55, 57}

\* the first operation over a simulated stream was is_moving and has returned
FirstIsMoving == exch = 1 /\ dpc = "idle" /\ dop = "is_moving"

\* C12 as stated: is_moving returns an error only when reading the response
\* failed (with Timeout or an I/O error).
C12_ErrorOnlyFromRead ==
    (FirstIsMoving /\ dret.kind = "Err") =>
        (resp.kind = "Err" /\ resp.err \in {"Timeout", "Io"})

\* C12 as amended: is_moving returns true exactly when the trimmed response
\* line is an integer with bit 0 set (negative values included), false
\* without error when the line is no integer, the read's error when reading
\* fails with Timeout or an I/O error, and an I/O error, with nothing read,
\* when sending the command fails.
C12_IsMovingDecodes ==
    FirstIsMoving =>
        /\ (resp.kind = "Ok" /\ Len(resp.val) <= 9) =>
              dret = OkBool(OddIntegerText(Trim(resp.val)))
        /\ resp.kind = "Err" =>
              (dret = resp /\ resp.err \in {"Timeout", "Io"})
        /\ resp.kind = "None" =>
              /\ dret = Err("Io")
              /\ tx # CmdStatus \o <<13>>
              /\ Bytes(rx) = stream

\* is_moving over "-5\n" has returned true
C12_Witness ==
    /\ FirstIsMoving
    /\ stream = <<45, 53, 10>>
    /\ dret = OkBool(TRUE)
\* C13: move_to and set_high_speed return as soon as their command is sent
\* and read nothing: the step that performs them leaves the unread input, the
\* read buffer and the last response as they were, and between reading
\* operations the unread input only grows.
C13_SendOnlyReadsNothing ==
    [][/\ (exch' = exch + 1 /\ dop' \in {"move_to", "set_high_speed"}) =>
            /\ dpc' = "idle"
            /\ rx' = rx
            /\ buffer' = buffer
            /\ resp' = resp
            /\ dret'.kind = "Ok" => tx' # tx
       /\ (dpc = "idle" /\ dpc' = "idle") =>
            /\ Len(rx') >= Len(rx)
            /\ SubSeq(rx', 1, Len(rx)) = rx]_vars

\* set_high_speed has returned Ok with a byte of an earlier exchange unread
C13_Witness ==
    /\ dpc = "idle"
    /\ dop = "set_high_speed"
    /\ dret = OkUnit
    /\ rx # <<>>
    /\ rx[1].ex < exch
\* C14: while the stage answers without error and the position it reports is
\* not within tolerance of the current target (10 of x_min in the arrival
\* wait, 5 of current_x in the per-step poll), start_scan goes on polling: it
\* neither moves on nor returns.
C14_OutOfToleranceKeepsPolling ==
    [][/\ (pc = "wait" /\ dret'.kind = "Ok"
              /\ ~Near(dret'.val, scan.x_min, StartTolerance))
            => (pc' = "wait" /\ returns' = returns)
       /\ (pc = "poll" /\ dret'.kind = "Ok"
              /\ ~Near(dret'.val, current_x, StepTolerance))
            => (pc' = "poll" /\ returns' = returns /\ results' = results)]_vars
\* the bytes of a position query and of a move on axis x
QueryX == <<80, 120, 13>>
MoveX(position) == <<120>> \o FormatI32(position) \o <<13>>

C16_AtMostOneHandle == handles <= 1
\* the step ends a host call
Returned == Len(returns') = Len(returns) + 1

\* C17: a failed connect() leaves the controller and its port handle as they
\* were; and once a controller is installed it stays installed, and no call
\* that ends afterwards reports "Not connected".
C17_ConnectionSurvivesFailures ==
    [][/\ (Returned /\ returns'[Len(returns')].op = "connect"
              /\ returns'[Len(returns')].kind = "IOError")
            => (controller' = controller /\ handles' = handles /\ tx' = tx)
       /\ controller = "Some" =>
            /\ controller' = "Some"
            /\ Returned => returns'[Len(returns')].kind # "RuntimeError"]_vars

\* a connect() has failed on a connected executor, which is still connected
C17_Witness ==
    /\ Len(returns) = 2
    /\ returns[1].op = "connect" /\ returns[1].kind = "Ok"
    /\ returns[2].op = "connect" /\ returns[2].kind = "IOError"
    /\ controller = "Some"
    /\ handles = 1
\* start_scan was called with x_min <= x_max and step > 0
AscendingScan(args) == args.x_min <= args.x_max /\ args.step > 0

\* C18: for x_min <= x_max and step > 0, whatever positions are reported, the
\* arithmetic of start_scan stays within the 32-bit signed range: no call
\* ends in an overflow panic, the sweep counter never wraps below x_min, and
\* no target outside [x_min, x_max] is commanded.
C18_ArithmeticInRange ==
    /\ \A i \in 1..Len(returns) :
          (returns[i].op = "start_scan" /\ AscendingScan(returns[i].args))
              => returns[i].kind # "Panic"
    /\ (pc \in {"sweep", "poll"} /\ AscendingScan(scan))
          => current_x >= scan.x_min
    /\ (pc = "poll" /\ AscendingScan(scan)) => current_x <= scan.x_max

====
